---- MODULE Spec2Model ----
(***************************************************************************)
(* Shape-level model of network/network.py: the Embedder, MotionEncoder,   *)
(* Generator and Discriminator modules of the talking-heads model.         *)
(* A tensor is modelled by its shape (a sequence of sizes) and by the      *)
(* operation that produced it; a slice of the psi vector is modelled by    *)
(* the column range it views.  A forward pass is executed one source line  *)
(* at a time; a raised exception ends the call.                            *)
(***************************************************************************)
EXTENDS Integers, Sequences, FiniteSets, TLC

VARIABLES net, phase, pc, adain, E_VECTOR_LENGTH, training_videos,
          PSI_PORTIONS, psi_length, projection, W,
          args, loc, trace, err, ret, sliced

vars == <<net, phase, pc, adain, E_VECTOR_LENGTH, training_videos,
          PSI_PORTIONS, psi_length, projection, W,
          args, loc, trace, err, ret, sliced>>

(***************************************************************************)
(* Bounds of the model.                                                    *)
(***************************************************************************)
MaxBatch == 2
MaxLayers == 3
MaxWidth == 2
MaxVideos == 2

Min(a, b) == IF a <= b THEN a ELSE b
Max(a, b) == IF a >= b THEN a ELSE b

(***************************************************************************)
(* Values.  A tensor is [shape, src]; None is the absent value.            *)
(***************************************************************************)
None == [shape |-> <<>>, src |-> "None"]
T(shape, src) == [shape |-> shape, src |-> src]
IsNone(v) == v.src = "None"
NoIndex == [kind |-> "None", vals |-> <<>>]
NoRet == [out |-> None, feats |-> <<>>]

RECURSIVE Prod(_)
Prod(s) == IF s = <<>> THEN 1 ELSE s[1] * Prod(Tail(s))

(***************************************************************************)
(* Generator.ADAIN_LAYERS: the ordered table of (input width, output       *)
(* width) per decoder layer.                                               *)
(***************************************************************************)
ADAIN_LAYERS ==
  << [name |-> "deconv6", len1 |-> 512, len2 |-> 512],
     [name |-> "deconv5", len1 |-> 512, len2 |-> 512],
     [name |-> "deconv4", len1 |-> 512, len2 |-> 256],
     [name |-> "deconv3", len1 |-> 256, len2 |-> 128],
     [name |-> "deconv2", len1 |-> 128, len2 |-> 64],
     [name |-> "deconv1", len1 |-> 64,  len2 |-> 3] >>

LayerNames == [k \in 1..Len(ADAIN_LAYERS) |-> ADAIN_LAYERS[k].name]

\* Other ordered tables the class attribute may hold: up to MaxLayers layers
\* with widths in 1..MaxWidth, keys distinct as in any OrderedDict.
SmallTables ==
  UNION { { [k \in 1..n |-> [name |-> LayerNames[k], len1 |-> f[k][1], len2 |-> f[k][2]]] :
              f \in [1..n -> (1..MaxWidth) \X (1..MaxWidth)] } : n \in 0..MaxLayers }

Tables == {ADAIN_LAYERS} \cup SmallTables

\* dict lookup by key in an insertion-ordered dict (a sequence of entries)
Has(d, key) == \E k \in 1..Len(d) : d[k].name = key
Get(d, key) == d[CHOOSE k \in 1..Len(d) : d[k].name = key]

(***************************************************************************)
(* Generator.define_psi_slices (lines 224-233).                            *)
(***************************************************************************)
RECURSIVE PsiLoopNoDouble(_, _, _, _, _)
PsiLoopNoDouble(d, k, start_idx, end_idx, out) ==
  IF k > Len(d) THEN [out |-> out, end_idx |-> end_idx]
  ELSE LET e2 == start_idx + d[k].len1 * 2 + d[k].len2
       IN PsiLoopNoDouble(d, k + 1, e2, e2,
                  Append(out, [name |-> d[k].name, start |-> start_idx, end |-> e2]))

define_psi_slices_nodouble(d) == PsiLoopNoDouble(d, 1, 0, 0, <<>>)

RECURSIVE PsiLoop(_, _, _, _, _)
PsiLoop(d, k, start_idx, end_idx, out) ==
  IF k > Len(d) THEN [out |-> out, end_idx |-> end_idx]
  ELSE LET e2 == start_idx + d[k].len1 * 2 + d[k].len2 * 2
       IN PsiLoop(d, k + 1, e2, e2,
                  Append(out, [name |-> d[k].name, start |-> start_idx, end |-> e2]))

define_psi_slices(d) == PsiLoop(d, 1, 0, 0, <<>>)

(***************************************************************************)
(* Basic slicing t[:, a:b] of a column view [b, off, len] of psi: as in    *)
(* Python, both bounds are clamped to the size and nothing is raised.      *)
(***************************************************************************)
View(b, off, len) == [b |-> b, off |-> off, len |-> len]

SliceUnclamped(v, a, b) == View(v.b, v.off + a, b - a)

Slice(v, a, b) ==
  LET lo == Min(a, v.len)
      hi == Min(b, v.len)
  IN View(v.b, v.off + lo, Max(hi - lo, 0))
SliceFrom(v, a) == Slice(v, a, v.len)

(***************************************************************************)
(* Generator.slice_psi (lines 216-222); psi is the view of a whole         *)
(* [B, L] tensor.                                                          *)
(***************************************************************************)
slice_psi_shifted(psi, portion, portions, layers) ==
  LET idx0 == Get(portions, portion).start
      idx1 == Get(portions, portion).end
      len1 == Get(layers, portion).len1
      len2 == Get(layers, portion).len2
      aux == Slice(psi, idx0, idx1)
  IN << Slice(aux, 0, len1), Slice(aux, len1, 2 * len1),
        Slice(aux, 2 * len1 + len2, 2 * len1 + 2 * len2),
        SliceFrom(aux, 2 * len1 + len2) >>

slice_psi(psi, portion, portions, layers) ==
  LET idx0 == Get(portions, portion).start
      idx1 == Get(portions, portion).end
      len1 == Get(layers, portion).len1
      len2 == Get(layers, portion).len2
      aux == Slice(psi, idx0, idx1)
  IN << Slice(aux, 0, len1), Slice(aux, len1, 2 * len1),
        Slice(aux, 2 * len1, 2 * len1 + len2),
        SliceFrom(aux, 2 * len1 + len2) >>

(***************************************************************************)
(* Shape contracts of the building blocks (network/components.py) and of   *)
(* the tensor library.  Bad is the shape of a call that raised.            *)
(***************************************************************************)
Bad == <<-1>>

\* E_VECTOR_LENGTH is read from the config module; the values tried.
EValues == {256, 512, 1024}

\* Image sizes tried for H and W.
Sizes == {64, 128, 256}

\* halves H and W; its 3x3 convolutions and 2x2 pooling need at least 2x2
ResidualBlockDown(cin, cout, s) ==
  IF Len(s) = 4 /\ s[2] = cin /\ s[3] >= 2 /\ s[4] >= 2
  THEN <<s[1], cout, s[3] \div 2, s[4] \div 2>> ELSE Bad

ResidualBlock(c, s) ==
  IF Len(s) = 4 /\ s[2] = c /\ s[3] >= 2 /\ s[4] >= 2 THEN s ELSE Bad

SelfAttention(c, s) == IF Len(s) = 4 /\ s[2] = c THEN s ELSE Bad

\* adaptive instance normalisation of a [B, c, H, W] feature by a mean and a
\* std view of shape [b, len, 1]: they must broadcast against [B, c, H*W]
AdaInOk(B, c, mean, std) ==
  /\ mean.len \in {1, c} /\ std.len \in {1, c}
  /\ mean.b \in {1, B} /\ std.b \in {1, B}

AdaptiveResidualBlockUp(cin, cout, upsample, s, psi4) ==
  IF /\ Len(s) = 4 /\ s[2] = cin
     /\ AdaInOk(s[1], cin, psi4[1], psi4[2])
     /\ AdaInOk(s[1], cout, psi4[3], psi4[4])
  THEN <<s[1], cout, s[3] * upsample, s[4] * upsample>> ELSE Bad

InstanceNorm2d(c, s) == IF Len(s) = 4 /\ s[2] = c THEN s ELSE Bad

AdaptiveMaxPool2d(s) == IF Len(s) = 4 THEN <<s[1], s[2], 1, 1>> ELSE Bad

Linear(cin, cout, s) ==
  IF Len(s) >= 1 /\ s[Len(s)] = cin THEN [s EXCEPT ![Len(s)] = cout] ELSE Bad

\* t.view(-1, d2, ..): the leading size is inferred from the element count
ViewInfer(s, rest) ==
  IF s # Bad /\ Prod(s) % Prod(rest) = 0 THEN <<Prod(s) \div Prod(rest)>> \o rest ELSE Bad

\* t.view(b, -1, d3, ..): the second size is inferred
ViewInfer2(s, b, rest) ==
  IF s # Bad /\ Prod(s) % (b * Prod(rest)) = 0
  THEN <<b, Prod(s) \div (b * Prod(rest))>> \o rest ELSE Bad

Unsqueeze(s, at) == SubSeq(s, 1, at) \o <<1>> \o SubSeq(s, at + 1, Len(s))

Transpose(s, i, j) ==
  IF Len(s) >= i /\ Len(s) >= j THEN [s EXCEPT ![i] = s[j], ![j] = s[i]] ELSE Bad

Broadcast(a, b) ==
  LET n == Max(Len(a), Len(b))
      pa == [k \in 1..n |-> IF k <= n - Len(a) THEN 1 ELSE a[k - (n - Len(a))]]
      pb == [k \in 1..n |-> IF k <= n - Len(b) THEN 1 ELSE b[k - (n - Len(b))]]
  IN IF a = Bad \/ b = Bad THEN Bad
     ELSE IF \A k \in 1..n : pa[k] = pb[k] \/ pa[k] = 1 \/ pb[k] = 1
          THEN [k \in 1..n |-> Max(pa[k], pb[k])] ELSE Bad

bmm(a, b) ==
  IF a # Bad /\ b # Bad /\ Len(a) = 3 /\ Len(b) = 3 /\ a[1] = b[1] /\ a[3] = b[2]
  THEN <<a[1], a[2], b[3]>> ELSE Bad

(***************************************************************************)
(* The frame of a forward call: its local variables, the calls made so     *)
(* far (trace: the layer, where its argument came from, and what else it   *)
(* was handed), the exception raised and the value returned.               *)
(***************************************************************************)
LocalNames == {"x", "y", "e", "s", "d", "out", "out_0", "out_1", "out_2", "out_3",
               "out_4", "out_5", "out_6", "out_7", "_out", "_W_i", "psi_hat",
               "early", "static"}

NoLocals == [n \in LocalNames |-> None]

Entry(fn, arg, info) == [fn |-> fn, arg |-> arg, info |-> info]

Raise(kind, tr) == [loc |-> loc, err |-> kind, trace |-> tr, ret |-> NoRet]
Bind(name, v, tr) ==
  [loc |-> [loc EXCEPT ![name] = v], err |-> "none", trace |-> tr, ret |-> NoRet]
Skip == [loc |-> loc, err |-> "none", trace |-> trace, ret |-> NoRet]
Return(v, feats) ==
  [loc |-> loc, err |-> "none", trace |-> trace, ret |-> [out |-> v, feats |-> feats]]

\* dst = fn(argv), where res is the shape the layer gives for argv
Apply(fn, res, argv, dst) ==
  LET tr == Append(trace, Entry(fn, argv.src, <<>>))
  IN IF res = Bad THEN Raise("RuntimeError", tr) ELSE Bind(dst, T(res, fn), tr)

(***************************************************************************)
(* Embedder.forward (lines 119-136); the layers are those of __init__      *)
(* (lines 104-112).                                                        *)
(***************************************************************************)
EmbedderBody == <<120, 125, 126, 127, 128, 129, 130, 131, 134, 136>>

EmbedderAssert(x) == Len(x) = 4 /\ x[2] = 3

EmbedderForward(l) ==
  CASE l = 120 -> IF EmbedderAssert(loc["x"].shape) THEN Skip
                  ELSE Raise("AssertionError", trace)
    [] l = 125 -> Apply("conv1", ResidualBlockDown(3, 64, loc["x"].shape), loc["x"], "out")
    [] l = 126 -> Apply("conv2", ResidualBlockDown(64, 128, loc["out"].shape), loc["out"], "out")
    [] l = 127 -> Apply("conv3", ResidualBlockDown(128, 256, loc["out"].shape), loc["out"], "out")
    [] l = 128 -> Apply("att", SelfAttention(256, loc["out"].shape), loc["out"], "out")
    [] l = 129 -> Apply("conv4", ResidualBlockDown(256, 512, loc["out"].shape), loc["out"], "out")
    [] l = 130 -> Apply("conv5", ResidualBlockDown(512, 512, loc["out"].shape), loc["out"], "out")
    [] l = 131 -> Apply("conv6", ResidualBlockDown(512, 512, loc["out"].shape), loc["out"], "out")
    [] l = 134 -> Apply("pooling",
                        ViewInfer(AdaptiveMaxPool2d(loc["out"].shape), <<E_VECTOR_LENGTH>>),
                        loc["out"], "out")
    [] l = 136 -> Return(loc["out"], <<>>)

(***************************************************************************)
(* MotionEncoder.forward (lines 51-69); layers of __init__ (lines 34-49).  *)
(***************************************************************************)
MotionEncoderBody == <<52, 53, 56, 57, 58, 59, 60, 61, 62, 63, 64, 66, 67, 68, 69>>

MotionEncoderForward(l) ==
  LET x == loc["x"]
      in0 == args.x
  IN
  CASE l = 52 -> IF Len(x.shape) = 5 THEN Skip ELSE Raise("ValueError", trace)
    [] l = 53 -> Bind("x", T(<<x.shape[1] * x.shape[2], x.shape[3], x.shape[4], x.shape[5]>>,
                             "view"), trace)
    [] l = 56 -> Apply("conv1", ResidualBlockDown(3, 128, x.shape), x, "out")
    [] l = 57 -> Apply("in1_e", InstanceNorm2d(128, x.shape), x, "out")
    [] l = 58 -> Apply("conv2", ResidualBlockDown(128, 256, x.shape), x, "out")
    [] l = 59 -> Apply("in2_e", InstanceNorm2d(256, x.shape), x, "out")
    [] l = 60 -> Apply("conv3", ResidualBlockDown(256, 512, x.shape), x, "out")
    [] l = 61 -> Apply("in3_e", InstanceNorm2d(512, x.shape), x, "out")
    [] l = 62 -> Apply("conv4", ResidualBlockDown(512, 512, x.shape), x, "out")
    [] l = 63 -> Apply("in4_e", InstanceNorm2d(512, x.shape), x, "out")
    [] l = 64 -> Apply("pooling", AdaptiveMaxPool2d(loc["out"].shape), loc["out"], "out")
    [] l = 66 -> Bind("x", T(<<in0[1], in0[2], Prod(x.shape) \div (in0[1] * in0[2])>>,
                             "view"), trace)
    [] l = 67 -> Apply("fc", Linear(512, 128, x.shape), x, "early")
    [] l = 68 -> Apply("gru",
                       IF Len(loc["out"].shape) \in {2, 3}
                       THEN Linear(512, 512, loc["out"].shape) ELSE Bad,
                       loc["out"], "static")
    [] l = 69 -> Return(loc["static"], <<loc["early"]>>)

(***************************************************************************)
(* Discriminator.forward (lines 260-292); layers and W of __init__         *)
(* (lines 240-253).  The index i is a plain int, a 0-d integer tensor or a *)
(* 1-D integer tensor: [kind, vals].                                       *)
(***************************************************************************)
DiscriminatorBody ==
  <<261, 262, 269, 272, 273, 274, 275, 276, 277, 278, 279, 282, 285, 286, 287, 288, 290, 292>>

\* the assertion of line 261
DiscriminatorAssert261(x) == Len(x) = 4 /\ x[2] = 3

DiscriminatorAssert262Rank(x, y) == Len(x) = Len(y)

\* the assertion of line 262
DiscriminatorAssert262(x, y) == x = y

\* W[:, i]: an index is in range when -n <= v < n, a negative one counting
\* from the last column
IndexOkNonNegative(n, i) == \A k \in DOMAIN i.vals : 0 <= i.vals[k] /\ i.vals[k] < n

IndexOk(n, i) == \A k \in DOMAIN i.vals : -n <= i.vals[k] /\ i.vals[k] < n

Columns(n, i) == [k \in DOMAIN i.vals |-> IF i.vals[k] < 0 THEN i.vals[k] + n ELSE i.vals[k]]

IndexShapeScalar(i) == <<>>

\* the dimensions an index contributes: none for an int or a 0-d tensor
IndexShape(i) == IF i.kind = "tensor1" THEN <<Len(i.vals)>> ELSE <<>>

DiscriminatorForward(l) ==
  LET x == loc["x"]
      out == loc["out"]
  IN
  CASE l = 261 -> IF DiscriminatorAssert261(x.shape) THEN Skip
                  ELSE Raise("AssertionError", trace)
    [] l = 262 -> IF DiscriminatorAssert262(x.shape, loc["y"].shape) THEN Skip
                  ELSE Raise("AssertionError", trace)
    [] l = 269 -> Bind("out", T([x.shape EXCEPT ![2] = x.shape[2] + loc["y"].shape[2]], "cat"),
                       Append(trace, Entry("cat", "x", <<>>)))
    [] l = 272 -> Apply("conv1", ResidualBlockDown(6, 64, out.shape), out, "out_0")
    [] l = 273 -> Apply("conv2", ResidualBlockDown(64, 128, loc["out_0"].shape), loc["out_0"], "out_1")
    [] l = 274 -> Apply("conv3", ResidualBlockDown(128, 256, loc["out_1"].shape), loc["out_1"], "out_2")
    [] l = 275 -> Apply("att", SelfAttention(256, loc["out_2"].shape), loc["out_2"], "out_3")
    [] l = 276 -> Apply("conv4", ResidualBlockDown(256, 512, loc["out_3"].shape), loc["out_3"], "out_4")
    [] l = 277 -> Apply("conv5", ResidualBlockDown(512, 512, loc["out_4"].shape), loc["out_4"], "out_5")
    [] l = 278 -> Apply("conv6", ResidualBlockDown(512, 512, loc["out_5"].shape), loc["out_5"], "out_6")
    [] l = 279 -> Apply("res_block", ResidualBlock(512, loc["out_6"].shape), loc["out_6"], "out_7")
    [] l = 282 -> Apply("pooling",
                        ViewInfer(AdaptiveMaxPool2d(loc["out_7"].shape), <<512, 1>>),
                        loc["out_7"], "out")
    [] l = 285 -> Bind("_out", T(Transpose(out.shape, 2, 3), "transpose"), trace)
    [] l = 286 ->
         LET sel == <<W[1]>> \o IndexShape(args.i)
         IN IF IndexOk(W[2], args.i)
            THEN Bind("_W_i", T(Transpose(Unsqueeze(sel, Len(sel)), 1, 2), "W"),
                      Append(trace, Entry("W", "i", Columns(W[2], args.i))))
            ELSE Raise("IndexError", Append(trace, Entry("W", "i", <<>>)))
    [] l = 287 -> Apply("bmm",
                        Broadcast(bmm(loc["_out"].shape,
                                      Broadcast(loc["_W_i"].shape, <<512, 1>>)), <<1>>),
                        loc["_out"], "out")
    [] l = 288 -> Apply("sigmoid", out.shape, out, "out")
    [] l = 290 -> Apply("reshape",
                        IF Prod(out.shape) = x.shape[1] THEN <<x.shape[1]>> ELSE Bad,
                        out, "out")
    [] l = 292 -> Return(out, <<loc["out_0"], loc["out_1"], loc["out_2"], loc["out_3"],
                                loc["out_4"], loc["out_5"], loc["out_6"], loc["out_7"]>>)

(***************************************************************************)
(* Generator.forward (lines 185-214); layers of __init__ (lines 158-178).  *)
(***************************************************************************)
GeneratorBodySwapped == <<190, 192, 198, 201, 202, 203, 204, 205, 208, 206, 209, 210, 212, 214>>

\* the lines of forward in execution order
GeneratorBody == <<190, 192, 198, 201, 202, 203, 204, 205, 206, 208, 209, 210, 212, 214>>

\* the layer name each decoder line hands to slice_psi
PortionAt(l) ==
  CASE l = 202 -> "deconv6" [] l = 203 -> "deconv5" [] l = 204 -> "deconv4"
    [] l = 205 -> "deconv3" [] l = 209 -> "deconv2" [] l = 210 -> "deconv1"

\* out = norm(fn(out, *self.slice_psi(psi_hat, portion)))
Decode(l, fn, norm, cin, cout) ==
  LET psi == loc["psi_hat"].shape
      psi4 == slice_psi(View(psi[1], 0, psi[2]), PortionAt(l), PSI_PORTIONS, adain)
      r1 == AdaptiveResidualBlockUp(cin, cout, 2, loc["out"].shape, psi4)
      t1 == Append(trace, Entry(fn, loc["out"].src, psi4))
      t2 == Append(t1, Entry(norm, fn, <<>>))
  IN IF ~Has(PSI_PORTIONS, PortionAt(l)) \/ ~Has(adain, PortionAt(l))
     THEN Raise("KeyError", trace)
     ELSE IF r1 = Bad THEN Raise("RuntimeError", t1)
     ELSE IF InstanceNorm2d(cout, r1) = Bad THEN Raise("RuntimeError", t2)
     ELSE Bind("out", T(r1, norm), t2)

GeneratorForward(l) ==
  LET y == loc["y"]
      e == loc["e"].shape
      out == loc["out"]
  IN
  CASE l = 190 -> IF Len(y.shape) = 4 THEN Bind("out", y, trace)
                  ELSE Raise("ValueError", trace)
    [] l = 192 -> IF IsNone(loc["s"]) THEN Skip
                  ELSE Raise("TypeError", Append(trace, Entry("static_fc", "s", <<>>)))
    [] l = 198 -> Apply("projection",
                        IF Len(e) = 2 /\ bmm(<<e[1]>> \o projection, <<e[1], e[2], 1>>) # Bad
                        THEN <<e[1], projection[1]>> ELSE Bad,
                        loc["e"], "psi_hat")
    [] l = 201 -> Apply("fc",
                        ViewInfer2(Linear(1, 16, Unsqueeze(out.shape, 2)), y.shape[1], <<4, 4>>),
                        out, "out")
    [] l = 202 -> Decode(l, "deconv6", "in6_d", 512, 512)
    [] l = 203 -> Decode(l, "deconv5", "in5_d", 512, 512)
    [] l = 204 -> Decode(l, "deconv4", "in4_d", 512, 256)
    [] l = 205 -> Decode(l, "deconv3", "in3_d", 256, 128)
    [] l = 206 -> IF IsNone(loc["d"]) THEN Skip
                  ELSE Apply("add_d",
                             IF Broadcast(out.shape, loc["d"].shape) = out.shape
                             THEN out.shape ELSE Bad,
                             out, "out")
    [] l = 208 -> Apply("att2", SelfAttention(128, out.shape), out, "out")
    [] l = 209 -> Decode(l, "deconv2", "in2_d", 128, 64)
    [] l = 210 -> Decode(l, "deconv1", "in1_d", 64, 3)
    [] l = 212 -> Apply("sigmoid", out.shape, out, "out")
    [] l = 214 -> Return(out, <<>>)

(***************************************************************************)
(* Inputs of the calls.                                                    *)
(***************************************************************************)
Nets == {"Embedder", "MotionEncoder", "Generator", "Discriminator"}

HW == {hw \in Sizes \X Sizes : hw[1] = hw[2] \/ (hw[1] = 128 /\ hw[2] = 256)}

ImageShapes ==
  {<<b, c, hw[1], hw[2]>> : b \in 1..MaxBatch, c \in {1, 3}, hw \in HW} \cup {<<3, 128, 128>>}

\* y is x, or differs from it in rank or in one dimension
YOptions(x) ==
  {y \in ImageShapes :
     Len(y) # Len(x) \/ Cardinality({k \in 1..Len(x) : x[k] # y[k]}) <= 1}

FrameShapes ==
  {<<b, k, c, hw[1], hw[2]>> : b \in 1..MaxBatch, k \in 1..MaxBatch, c \in {3, 128}, hw \in HW}
    \cup {<<1, 3, 128, 128>>}

IndexVals(n) == {-n - 1, -n, -1, 0, n - 1, n}

Indexes(n) ==
  {[kind |-> k, vals |-> <<v>>] : k \in {"int", "tensor0"}, v \in IndexVals(n)}
    \cup {[kind |-> "tensor1", vals |-> f] :
            f \in UNION {[1..m -> IndexVals(n)] : m \in 1..MaxBatch}}

NoArgs == [x |-> None, y |-> None, e |-> None, s |-> None, d |-> None, i |-> NoIndex]

In(shape, name) == T(shape, name)

\* the arguments each forward method is called with; None where it has none
XSet(n) ==
  CASE n = "Embedder" -> {In(sx, "x") : sx \in ImageShapes}
    [] n = "MotionEncoder" -> {In(sx, "x") : sx \in FrameShapes}
    [] n = "Discriminator" -> {In(sx, "x") : sx \in ImageShapes}
    [] n = "Generator" -> {None}

YSet(n, x) ==
  CASE n = "Discriminator" -> {In(sy, "y") : sy \in YOptions(x.shape)}
    [] n = "Generator" ->
         UNION {{In(sy, "y") : sy \in {<<b, 512, 1, 1>>, <<b, 256, 2, 1>>, <<b, 512>>,
                                       <<b, 512, 1, 2>>, <<b, 1, 1, 1>>}} : b \in 1..MaxBatch}
    [] OTHER -> {None}

ISet(n) == IF n = "Discriminator" THEN Indexes(training_videos) ELSE {NoIndex}

ESet(n) ==
  IF n = "Generator"
  THEN {In(<<be, ee>>, "e") : be \in 1..MaxBatch, ee \in EValues} ELSE {None}

SSet(n, y) == IF n = "Generator" THEN {None, In(<<y.shape[1], 512>>, "s")} ELSE {None}

DSet(n, y) ==
  IF n = "Generator"
  THEN {None, In(<<y.shape[1], 128, 64, 64>>, "d"), In(<<y.shape[1], 64, 64, 64>>, "d"),
        In(<<1, 128, 1, 1>>, "d")}
  ELSE {None}

Body(n) ==
  CASE n = "Embedder" -> EmbedderBody
    [] n = "MotionEncoder" -> MotionEncoderBody
    [] n = "Discriminator" -> DiscriminatorBody
    [] n = "Generator" -> GeneratorBody

Exec(n, l) ==
  CASE n = "Embedder" -> EmbedderForward(l)
    [] n = "MotionEncoder" -> MotionEncoderForward(l)
    [] n = "Discriminator" -> DiscriminatorForward(l)
    [] n = "Generator" -> GeneratorForward(l)

IndexOf(body, l) == CHOOSE k \in 1..Len(body) : body[k] = l

(***************************************************************************)
(* Construction.                                                           *)
(***************************************************************************)
FirstInitLine(n) ==
  CASE n = "Embedder" -> 104 [] n = "MotionEncoder" -> 34
    [] n = "Discriminator" -> 240 [] n = "Generator" -> 153

NoSliced == [b |-> 0, len |-> 0, portion |-> "", out |-> <<>>]

Init ==
  /\ net \in Nets
  /\ phase = "new"
  /\ pc = FirstInitLine(net)
  /\ adain \in (IF net = "Generator" THEN Tables ELSE {ADAIN_LAYERS})
  \* only the Embedder and the Generator read the configuration
  /\ E_VECTOR_LENGTH \in (IF net \in {"Embedder", "Generator"} THEN EValues ELSE {512})
  /\ training_videos \in (IF net = "Discriminator" THEN 1..MaxVideos ELSE {0})
  /\ PSI_PORTIONS = <<>> /\ psi_length = 0 /\ projection = <<>> /\ W = <<>>
  /\ args = NoArgs /\ loc = NoLocals /\ trace = <<>>
  /\ err = "none" /\ ret = NoRet /\ sliced = NoSliced

\* Embedder.__init__, MotionEncoder.__init__: the layers are fixed
LayersInit ==
  /\ net \in {"Embedder", "MotionEncoder"} /\ phase = "new"
  /\ phase' = "ready"
  /\ UNCHANGED <<net, pc, adain, E_VECTOR_LENGTH, training_videos, PSI_PORTIONS,
                 psi_length, projection, W, args, loc, trace, err, ret, sliced>>

\* Discriminator.__init__: W has one column per training video (line 251)
DiscriminatorInit ==
  /\ net = "Discriminator" /\ phase = "new"
  /\ W' = <<512, training_videos>>
  /\ phase' = "ready"
  /\ UNCHANGED <<net, pc, adain, E_VECTOR_LENGTH, training_videos, PSI_PORTIONS,
                 psi_length, projection, args, loc, trace, err, ret, sliced>>

\* Generator.__init__ line 153
GeneratorInit153 ==
  /\ net = "Generator" /\ phase = "new" /\ pc = 153
  /\ PSI_PORTIONS' = define_psi_slices(adain).out
  /\ psi_length' = define_psi_slices(adain).end_idx
  /\ pc' = 154
  /\ UNCHANGED <<net, phase, adain, E_VECTOR_LENGTH, training_videos,
                 projection, W, args, loc, trace, err, ret, sliced>>

\* Generator.__init__ line 154
GeneratorInit154 ==
  /\ net = "Generator" /\ phase = "new" /\ pc = 154
  /\ projection' = <<psi_length, E_VECTOR_LENGTH>>
  /\ pc' = 155
  /\ UNCHANGED <<net, phase, adain, E_VECTOR_LENGTH, training_videos, PSI_PORTIONS,
                 psi_length, W, args, loc, trace, err, ret, sliced>>

\* Generator.__init__ line 155: nn.Parameter(512, 512) is handed an int where
\* it takes a tensor and raises; the constructor ends there.
GeneratorInit155 ==
  /\ net = "Generator" /\ phase = "new" /\ pc = 155
  /\ phase' = "raised"
  /\ err' = "TypeError"
  /\ UNCHANGED <<net, pc, adain, E_VECTOR_LENGTH, training_videos, PSI_PORTIONS,
                 psi_length, projection, W, args, loc, trace, ret, sliced>>

(***************************************************************************)
(* A forward call on a constructed module, one source line per step.       *)
(***************************************************************************)
Call ==
  /\ phase = "ready"
  /\ \E x \in XSet(net) : \E y \in YSet(net, x) : \E i \in ISet(net) :
     \E e \in ESet(net) : \E s \in SSet(net, y) : \E d \in DSet(net, y) :
       /\ args' = [x |-> x, y |-> y, e |-> e, s |-> s, d |-> d, i |-> i]
       /\ loc' = [NoLocals EXCEPT !["x"] = x, !["y"] = y, !["e"] = e,
                                  !["s"] = s, !["d"] = d]
  /\ phase' = "running"
  /\ pc' = Body(net)[1]
  /\ trace' = <<>>
  /\ UNCHANGED <<net, adain, E_VECTOR_LENGTH, training_videos, PSI_PORTIONS,
                 psi_length, projection, W, err, ret, sliced>>

Step ==
  /\ phase = "running"
  /\ LET body == Body(net)
         k == IndexOf(body, pc)
         r == Exec(net, pc)
     IN /\ loc' = r.loc /\ err' = r.err /\ trace' = r.trace /\ ret' = r.ret
        /\ phase' = IF r.err # "none" THEN "raised"
                    ELSE IF k = Len(body) THEN "returned" ELSE "running"
        /\ pc' = IF r.err = "none" /\ k < Len(body) THEN body[k + 1] ELSE pc
  /\ UNCHANGED <<net, adain, E_VECTOR_LENGTH, training_videos, PSI_PORTIONS,
                 psi_length, projection, W, args, sliced>>

Next ==
  \/ LayersInit \/ DiscriminatorInit
  \/ GeneratorInit153 \/ GeneratorInit154 \/ GeneratorInit155
  \/ Call \/ Step

Spec == Init /\ [][Next]_vars

(***************************************************************************)
(* Generator.forward on an instance that holds the attributes lines        *)
(* 153-178 assign.  The constructor as written never yields one (line 155  *)
(* raises); this is the state it is written to leave, from which the body  *)
(* of forward is executed.                                                 *)
(***************************************************************************)
InitForward ==
  /\ net = "Generator"
  /\ phase = "ready"
  /\ pc = 183
  /\ adain = ADAIN_LAYERS
  /\ E_VECTOR_LENGTH \in EValues
  /\ training_videos = 0
  /\ PSI_PORTIONS = define_psi_slices(adain).out
  /\ psi_length = define_psi_slices(adain).end_idx
  /\ projection = <<define_psi_slices(adain).end_idx, E_VECTOR_LENGTH>>
  /\ W = <<>>
  /\ args = NoArgs /\ loc = NoLocals /\ trace = <<>>
  /\ err = "none" /\ ret = NoRet /\ sliced = NoSliced

NextForward == Call \/ Step

SpecForward == InitForward /\ [][NextForward]_vars

(***************************************************************************)
(* slice_psi as a function of a psi tensor [b, n] and a layer name, on the *)
(* table line 153 built.                                                   *)
(***************************************************************************)
\* psi lengths tried: every short one, and those around psi_length
PsiLens ==
  {n \in 0..(psi_length + 1) : n <= 4 * MaxLayers * MaxWidth + 1 \/ n >= psi_length - 1}

CallSlicePsi ==
  /\ net = "Generator" /\ pc = 154 /\ sliced = NoSliced
  /\ \E b \in 1..MaxBatch, n \in PsiLens, k \in 1..Len(adain) :
       sliced' = [b |-> b, len |-> n, portion |-> adain[k].name,
                  out |-> slice_psi(View(b, 0, n), adain[k].name, PSI_PORTIONS, adain)]
  /\ UNCHANGED <<net, phase, pc, adain, E_VECTOR_LENGTH, training_videos, PSI_PORTIONS,
                 psi_length, projection, W, args, loc, trace, err, ret>>

InitPsi == Init /\ net = "Generator" /\ E_VECTOR_LENGTH = 512

NextPsi == GeneratorInit153 \/ CallSlicePsi

SpecPsi == InitPsi /\ [][NextPsi]_vars

(***************************************************************************)
(* Claims about the psi slice table and slice_psi.                         *)
(***************************************************************************)
\* C1: for every ADAIN_LAYERS table, the table built by define_psi_slices gives
\* each layer, in table order, a range of length 2*len1 + 2*len2; the first
\* starts at 0, each starts where the previous one ends, the last ends at
\* psi_length, and the projection matrix of line 154 has psi_length rows.
C1_PsiSlicesContiguous ==
  (net = "Generator" /\ pc >= 154) =>
     /\ Len(PSI_PORTIONS) = Len(adain)
     /\ \A k \in 1..Len(adain) :
          /\ PSI_PORTIONS[k].name = adain[k].name
          /\ PSI_PORTIONS[k].end - PSI_PORTIONS[k].start
               = 2 * adain[k].len1 + 2 * adain[k].len2
          /\ PSI_PORTIONS[k].start = (IF k = 1 THEN 0 ELSE PSI_PORTIONS[k - 1].end)
     /\ psi_length = (IF Len(adain) = 0 THEN 0 ELSE PSI_PORTIONS[Len(adain)].end)
     /\ (pc >= 155 => projection[1] = psi_length)

C1_Witness ==
  /\ net = "Generator" /\ pc = 155 /\ adain = ADAIN_LAYERS
  /\ PSI_PORTIONS[6].start = 6784 /\ projection[1] = 6918

CalledSlice == sliced # NoSliced

\* C2: on a psi of length psi_length, slice_psi returns four consecutive,
\* non-overlapping sub-vectors of sizes len1, len1, len2, len2, in that order,
\* filling the layer's own range and touching no other layer's range.
C2_SlicePsiSizes ==
  (CalledSlice /\ sliced.len = psi_length) =>
     LET p == Get(PSI_PORTIONS, sliced.portion)
         L == Get(adain, sliced.portion)
         o == sliced.out
     IN /\ Len(o) = 4
        /\ <<o[1].len, o[2].len, o[3].len, o[4].len>> = <<L.len1, L.len1, L.len2, L.len2>>
        /\ o[1].off = p.start
        /\ \A k \in 1..3 : o[k + 1].off = o[k].off + o[k].len
        /\ o[4].off + o[4].len = p.end
        /\ \A k \in 1..4 : o[k].b = sliced.b
        /\ \A q \in 1..Len(PSI_PORTIONS) :
             PSI_PORTIONS[q].name # sliced.portion =>
               \A k \in 1..4 : \/ o[k].off + o[k].len <= PSI_PORTIONS[q].start
                               \/ o[k].off >= PSI_PORTIONS[q].end

C2_Witness ==
  /\ CalledSlice /\ adain = ADAIN_LAYERS /\ sliced.len = psi_length
  /\ sliced.portion = "deconv4" /\ sliced.out[3] = View(sliced.b, 4096 + 1024, 256)

Avail == Max(0, Min(sliced.len, Get(PSI_PORTIONS, sliced.portion).end)
                  - Get(PSI_PORTIONS, sliced.portion).start)

\* C8 as stated: when psi is shorter than the layer's end offset, slice_psi
\* raises and returns no sub-vectors.
C8_ShortPsiRaises ==
  (CalledSlice /\ sliced.len < Get(PSI_PORTIONS, sliced.portion).end) => sliced.out = <<>>

\* C8 amended: when psi is shorter than the layer's end offset, slice_psi raises
\* nothing; it returns four consecutive sub-vectors cut from the part of the
\* layer's range that psi holds, so that their sizes are len1, len1, len2, len2
\* clamped to the columns available and at least one is shorter than configured.
C8_ShortPsiTruncates ==
  (CalledSlice /\ sliced.len < Get(PSI_PORTIONS, sliced.portion).end) =>
     LET L == Get(adain, sliced.portion)
         o == sliced.out
         a == Avail
     IN /\ Len(o) = 4
        /\ o[1].len = Min(L.len1, a)
        /\ o[2].len = Min(L.len1, Max(a - L.len1, 0))
        /\ o[3].len = Min(L.len2, Max(a - 2 * L.len1, 0))
        /\ o[4].len = Max(a - 2 * L.len1 - L.len2, 0)
        /\ o[1].len + o[2].len + o[3].len + o[4].len = a
        /\ o[4].len < L.len2
        /\ \A k \in 1..4 : o[k].off + o[k].len <= sliced.len

C8_Witness ==
  /\ CalledSlice /\ sliced.len < Get(PSI_PORTIONS, sliced.portion).end
  /\ sliced.out[1].len > 0 /\ sliced.out[3].len > 0 /\ sliced.out[4].len = 0

(***************************************************************************)
(* Claims about the forward passes.                                        *)
(***************************************************************************)
\* a forward call has been made
Called == args # NoArgs

Names(tr) == [k \in DOMAIN tr |-> tr[k].fn]

\* C3 as stated: a Generator built on the fixed table, called with B embeddings
\* of length E_VECTOR_LENGTH and a motion tensor of the same batch (s and d
\* absent), raises nothing and returns a tensor of shape [B, 3, 256, 256].
C3_GeneratorRuns ==
  (/\ net = "Generator" /\ adain = ADAIN_LAYERS
   /\ Called => /\ Len(args.y.shape) = 4
                /\ args.y.shape[2] * args.y.shape[3] = 512 /\ args.y.shape[4] = 1
                /\ args.e.shape = <<args.y.shape[1], E_VECTOR_LENGTH>>
                /\ IsNone(args.s) /\ IsNone(args.d))
  => /\ err = "none"
     /\ phase = "returned" => ret.out.shape = <<args.y.shape[1], 3, 256, 256>>

X == args.x.shape
Y == args.y.shape

\* x and y as Discriminator.forward wants them
WellFormedPair == Len(X) = 4 /\ X[2] = 3 /\ X = Y

\* large enough for all six halvings and the last residual block
LargeEnough == X[3] >= 128 /\ X[4] >= 128

\* C4: Discriminator.forward fails with an assertion, before the
\* concatenation or any stage runs and without a score, when x is not rank 4,
\* or x or y has not 3 channels, or x and y differ in shape.
C4_DiscriminatorRejects ==
  (net = "Discriminator" /\ Called /\ (Len(X) # 4 \/ X[2] # 3 \/ Y[2] # 3 \/ X # Y)) =>
     /\ pc \in {261, 262}
     /\ trace = <<>>
     /\ ret = NoRet
     /\ phase # "returned"
     /\ phase = "raised" => err = "AssertionError"

C4_Witness ==
  /\ net = "Discriminator" /\ phase = "raised" /\ err = "AssertionError"
  /\ pc = 262 /\ Len(Y) = 4 /\ Y[2] = 3 /\ X[1] # Y[1]

FeatureOrder == <<"conv1", "conv2", "conv3", "att", "conv4", "conv5", "conv6", "res_block">>

ReturnsScores ==
  /\ err = "none"
  /\ phase = "returned" =>
       /\ ret.out.shape = <<X[1]>>
       /\ [k \in DOMAIN ret.feats |-> ret.feats[k].src] = FeatureOrder

InZeroN(v) == 0 <= v /\ v < training_videos

\* C5 as stated: for well-formed x and y and any index in [0, training_videos),
\* a plain int or an integer tensor, forward completes and returns B scores and
\* the 8 feature maps in stage order.
C5_AnyIndexKind ==
  (/\ net = "Discriminator" /\ Called /\ WellFormedPair /\ LargeEnough
   /\ \A k \in DOMAIN args.i.vals : InZeroN(args.i.vals[k]))
  => ReturnsScores

\* C5 amended: for well-formed x and y of shape [B, 3, H, W] with H, W >= 128
\* and the index given as a 1-D integer tensor of B entries in
\* [0, training_videos), forward completes and returns B scores and the 8
\* feature maps in stage order.
C5_BatchIndex ==
  (/\ net = "Discriminator" /\ Called /\ WellFormedPair /\ LargeEnough
   /\ args.i.kind = "tensor1" /\ Len(args.i.vals) = X[1]
   /\ \A k \in DOMAIN args.i.vals : InZeroN(args.i.vals[k]))
  => ReturnsScores

C5_Witness ==
  /\ net = "Discriminator" /\ phase = "returned" /\ X = <<2, 3, 128, 256>>
  /\ training_videos = 2 /\ args.i = [kind |-> "tensor1", vals |-> <<1, 0>>]
  /\ ret.out.shape = <<2>> /\ Len(ret.feats) = 8

Past286 == IndexOf(DiscriminatorBody, pc) > IndexOf(DiscriminatorBody, 286)

Selected == {k \in DOMAIN trace : trace[k].fn = "W" /\ trace[k].info # <<>>}

\* C6 as stated: a call whose index lies outside [0, training_videos) gets no
\* further than the indexing of W, selects no column and returns no score.
C6_OutsideZeroNFails ==
  (/\ net = "Discriminator" /\ Called
   /\ \E k \in DOMAIN args.i.vals : ~InZeroN(args.i.vals[k]))
  => /\ ~Past286 /\ Selected = {} /\ ret = NoRet
     /\ (phase = "raised" /\ pc = 286) => err = "IndexError"

\* C6 amended: with N = training_videos, a call that reaches the indexing of W
\* with an index outside [-N, N) fails there with an index error, selects no
\* column and returns no score; every index in [-N, N) selects a column, a
\* negative index i the column N + i, and raises no index error.
C6_IndexRange ==
  (net = "Discriminator" /\ Called) =>
     /\ (\E k \in DOMAIN args.i.vals :
            args.i.vals[k] < -training_videos \/ args.i.vals[k] >= training_videos)
        => /\ ~Past286 /\ Selected = {} /\ ret = NoRet
           /\ (phase = "raised" /\ pc = 286) => err = "IndexError"
           /\ (phase = "running" /\ pc = 286) => ENABLED Step
     /\ (\A k \in DOMAIN args.i.vals :
            -training_videos <= args.i.vals[k] /\ args.i.vals[k] < training_videos)
        => /\ err # "IndexError"
           /\ Past286 =>
                /\ Selected # {}
                /\ \A t \in Selected : \A k \in DOMAIN args.i.vals :
                     /\ trace[t].info[k] \in 0..(training_videos - 1)
                     /\ trace[t].info[k] = (args.i.vals[k] + training_videos) % training_videos

C6_Witness ==
  /\ net = "Discriminator" /\ phase = "raised" /\ err = "IndexError" /\ pc = 286
  /\ \E k \in DOMAIN args.i.vals : args.i.vals[k] < -training_videos

\* C7 as stated: for every E_VECTOR_LENGTH and every batch of N three-channel
\* square images, Embedder.forward returns a tensor of shape
\* [N, E_VECTOR_LENGTH]; an input that is not rank 4 or has not 3 channels fails
\* with an assertion.
C7_EmbedderShape ==
  (net = "Embedder" /\ Called) =>
     IF Len(X) = 4 /\ X[2] = 3
     THEN (X[3] = X[4]) => /\ err = "none"
                           /\ phase = "returned" => ret.out.shape = <<X[1], E_VECTOR_LENGTH>>
     ELSE /\ phase # "returned" /\ trace = <<>>
          /\ phase = "raised" => err = "AssertionError"

\* the tensor each stage of MotionEncoder.forward is meant to consume
StageInput ==
  [fn \in {"conv1", "in1_e", "conv2", "in2_e", "conv3", "in3_e", "conv4", "in4_e", "gru"} |->
     CASE fn = "conv1" -> "view" [] fn = "in1_e" -> "conv1"
       [] fn = "conv2" -> "conv1" [] fn = "in2_e" -> "conv2"
       [] fn = "conv3" -> "conv2" [] fn = "in3_e" -> "conv3"
       [] fn = "conv4" -> "conv3" [] fn = "in4_e" -> "conv4"
       [] fn = "gru" -> "pooling"]

\* C10 as stated: in MotionEncoder.forward the convolution of stage k+1 takes
\* the output of the convolution of stage k, and each normalization layer is
\* applied to the output of its own stage's convolution.
C10_StagesChained ==
  net = "MotionEncoder" =>
     \A k \in DOMAIN trace :
        trace[k].fn \in DOMAIN StageInput => trace[k].arg = StageInput[trace[k].fn]

DecoderStages == {"deconv6", "deconv5", "deconv4", "deconv3", "deconv2", "deconv1"}

ExpectedOrder(withD) ==
  <<"projection", "fc", "deconv6", "in6_d", "deconv5", "in5_d",
    "deconv4", "in4_d", "deconv3", "in3_d">>
    \o (IF withD THEN <<"add_d">> ELSE <<>>)
    \o <<"att2", "deconv2", "in2_d", "deconv1", "in1_d", "sigmoid">>

\* C9: in every Generator.forward call that completes, psi is computed once,
\* then deconv6, deconv5, deconv4, deconv3 run, then d is added iff it was
\* given, then the attention block runs, then deconv2 and deconv1, then the
\* sigmoid; each decoder stage runs once, with the four sub-vectors of the psi
\* range of its own name.
C9_ForwardOrder ==
  (net = "Generator" /\ phase = "returned") =>
     /\ Names(trace) = ExpectedOrder(~IsNone(args.d))
     /\ \A k \in DOMAIN trace :
          trace[k].fn \in DecoderStages =>
             LET p == Get(PSI_PORTIONS, trace[k].fn)
                 o == trace[k].info
             IN /\ Len(o) = 4
                /\ o[1].off = p.start
                /\ \A j \in 1..3 : o[j + 1].off = o[j].off + o[j].len
                /\ o[4].off + o[4].len = p.end

C9_Witness ==
  /\ net = "Generator" /\ phase = "returned" /\ ~IsNone(args.d)
  /\ ret.out.shape = <<2, 3, 256, 256>> /\ Len(trace) = 17

====
